---- MODULE Spec2Model ----
(***************************************************************************)
(* State-machine model of the document management core: the folder tree    *)
(* with materialized paths (DmsRepository / DmsService), documents and     *)
(* their versions, folder permissions, and the remote file cache           *)
(* (RemoteFileManager).                                                    *)
(*                                                                         *)
(* The variables hold the COMMITTED database state.  Every DmsService      *)
(* method runs its repository calls and then commit(), or rollback() on    *)
(* any exception, so one service call is one atomic step here; a call that *)
(* raises leaves the committed state as it was and only sets status_code.  *)
(*                                                                         *)
(* A path "/a/b/" is the sequence <<"a", "b">>: f"{parent.path}{name}/" is *)
(* Append(parent.path, name) and f"/{name}/" is <<name>>.                  *)
(***************************************************************************)
EXTENDS Integers, Sequences, FiniteSets, TLC

\* ---------------------------------------------------------------- bounds
MaxFolders == 3
MaxDocs == 2
MaxVersions == 2
MaxPathLen == 3

NoId == 0
FolderIds == 1..MaxFolders
DocIds == 1..MaxDocs
Names == {"a", "b"}
NoName == ""
NoPath == <<"None">>

VARIABLES
    folders,      \* dms_folders rows: id -> record
    documents,    \* dms_documents rows: id -> record
    versions,     \* dms_document_versions rows: set of [document_id, version_number]
    autoflush,    \* the Session's autoflush setting (fixed by the deployment)
    status_code,  \* HTTP status of the last service call (200 = committed)
    folder_permissions,  \* dms_folder_permissions rows
    now,          \* datetime.now(), in ticks
    check,        \* the last permission check: its arguments and its result
    document_permissions,  \* dms_document_permissions rows
    files,        \* scraped_tender_files rows: id -> record
    disk,         \* ids of the files whose dms_path exists under DMS_ROOT
    pc,           \* per worker: where its RemoteFileManager call stands
    file_record,  \* per worker: the ORM object it holds (id and loaded values)
    call,         \* per worker: the running call and bulk_cache_files' loop state
    result,       \* what the call that returned last returned
    storage,      \* the documents whose file is on disk at their storage_path
    document_categories,  \* the documents associated with the category
    session       \* per worker: the DMS transaction it has open

permVars == <<folder_permissions, now, check, document_permissions>>
cacheVars == <<files, disk, pc, file_record, call, result>>
uploadVars == <<storage, document_categories>>

NoFolder ==
    [exists |-> FALSE, name |-> NoName, parent_folder_id |-> NoId, path |-> <<>>,
     document_count |-> 0, is_deleted |-> FALSE]

NoDocument ==
    [exists |-> FALSE, folder_id |-> NoId, folder_path |-> NoPath,
     status |-> "pending", version |-> 0, is_deleted |-> FALSE]

\* The model stops before a folder's document_count passes MaxCount (lost
\* decrements let it grow without end).
MaxCount == 2

\* The workers that run calls side by side, each in its own Session
MaxWorkers == 2
Workers == 1..MaxWorkers

\* A Session with no call running.  A running call holds the objects it
\* loaded: the document's folder (old_folder) with its document_count
\* (old_count) and the folder named by the request with its document_count
\* (new_count).
NoSession == [op |-> "idle", document_id |-> NoId, folder_id |-> NoId,
              old_folder |-> NoId, old_count |-> 0, new_count |-> 0]

\* ------------------------------------------------------- folder queries

\* get_folder: the row with this id that is not soft-deleted, or None.
GetFolder(fs, folder_id) ==
    /\ folder_id \in FolderIds
    /\ fs[folder_id].exists
    /\ ~fs[folder_id].is_deleted

\* The id a new folder row gets (ids are opaque; the lowest free slot).
NewFolderId == CHOOSE id \in FolderIds :
    /\ ~folders[id].exists
    /\ \A j \in FolderIds : j < id => folders[j].exists

\* The query of _update_subfolder_paths / delete_folder: non-deleted rows
\* whose parent_folder_id is folder_id, as the database shows them.
Subfolders(db, folder_id) ==
    {c \in FolderIds : /\ db[c].exists
                       /\ ~db[c].is_deleted
                       /\ db[c].parent_folder_id = folder_id}

\* What a query inside a transaction sees of the pending changes fs: with
\* autoflush the pending changes are flushed before the query runs, without
\* it the query reads the rows as last flushed (here: as committed).
Visible(fs) == IF autoflush THEN fs ELSE folders

\* The deepest recursion a cycle-free tree of the model's folders allows;
\* going deeper means the walk is on a cycle and never ends (RecursionError).
RecursionLimit == Cardinality(FolderIds)

RECURSIVE UpdateSubfolderPaths(_, _, _, _)
RECURSIVE UpdateEachSubfolder(_, _, _, _)

\* _update_subfolder_paths(folder_id, new_parent_path): the result is
\* [ok, fs, visited]; ok = FALSE is the RecursionError of an endless walk,
\* visited the subfolders whose path was assigned, in the order of the walk.
UpdateSubfolderPaths(fs, folder_id, new_parent_path, depth) ==
    IF depth > RecursionLimit
    THEN [ok |-> FALSE, fs |-> fs, visited |-> <<>>]
    ELSE UpdateEachSubfolder(fs, Subfolders(Visible(fs), folder_id),
                              new_parent_path, depth)

\* The for loop over the subfolders (the result does not depend on its order).
UpdateEachSubfolder(fs, subfolders, new_parent_path, depth) ==
    IF subfolders = {}
    THEN [ok |-> TRUE, fs |-> fs, visited |-> <<>>]
    ELSE LET subfolder == CHOOSE c \in subfolders : TRUE
             new_path == Append(new_parent_path, fs[subfolder].name)
             fs1 == [fs EXCEPT ![subfolder].path = new_path]
             r == UpdateSubfolderPaths(fs1, subfolder, new_path, depth + 1)
             rest == UpdateEachSubfolder(r.fs, subfolders \ {subfolder},
                                         new_parent_path, depth)
         IN IF ~r.ok
            THEN [r EXCEPT !.visited = <<subfolder>> \o r.visited]
            ELSE [rest EXCEPT
                     !.visited = <<subfolder>> \o r.visited \o rest.visited]

\* ---------------------------------------------------- folder operations

\* DmsService.create_folder + DmsRepository.create_folder
CreateFolder(name, parent_folder_id) ==
    /\ \E id \in FolderIds : ~folders[id].exists
    /\ IF parent_folder_id # NoId /\ ~GetFolder(folders, parent_folder_id)
       THEN /\ status_code' = 404
            /\ UNCHANGED folders
       ELSE /\ folders' = [folders EXCEPT ![NewFolderId] =
                [exists |-> TRUE, name |-> name,
                 parent_folder_id |-> parent_folder_id,
                 path |-> IF parent_folder_id # NoId
                          THEN Append(folders[parent_folder_id].path, name)
                          ELSE <<name>>,
                 document_count |-> 0, is_deleted |-> FALSE]]
            /\ status_code' = 200
    /\ UNCHANGED <<documents, versions, autoflush, permVars, cacheVars, uploadVars, session>>

\* DmsRepository.update_folder: the rows after the call, for a folder that
\* was found.  Only the folder's own path is regenerated.
UpdateFolderRows(folder_id, name) ==
    IF name = NoName
    THEN folders
    ELSE [folders EXCEPT
            ![folder_id].name = name,
            ![folder_id].path =
                IF folders[folder_id].parent_folder_id # NoId
                THEN Append(folders[folders[folder_id].parent_folder_id].path, name)
                ELSE <<name>>]

\* DmsService.update_folder + DmsRepository.update_folder.  name = NoName
\* is an update of the other fields only.
UpdateFolder(folder_id, name) ==
    /\ IF ~GetFolder(folders, folder_id)
       THEN /\ status_code' = 404
            /\ UNCHANGED folders
       ELSE IF /\ name # NoName
               /\ folders[folder_id].parent_folder_id # NoId
               /\ ~GetFolder(folders, folders[folder_id].parent_folder_id)
            THEN \* parent is None: parent.path raises, rolled back
                 /\ status_code' = 500
                 /\ UNCHANGED folders
            ELSE /\ folders' = UpdateFolderRows(folder_id, name)
                 /\ status_code' = 200
    /\ UNCHANGED <<documents, versions, autoflush, permVars, cacheVars, uploadVars, session>>

\* delete_folder's two emptiness queries
HasDocuments(folder_id) ==
    \E d \in DocIds : /\ documents[d].exists
                      /\ ~documents[d].is_deleted
                      /\ documents[d].folder_id = folder_id

HasSubfolders(folder_id) == Subfolders(folders, folder_id) # {}

\* delete_folder without its subfolder query
DeleteFolderDocumentsOnly(folder_id) ==
    /\ IF ~GetFolder(folders, folder_id)
       THEN /\ status_code' = 404
            /\ UNCHANGED folders
       ELSE IF HasDocuments(folder_id)
            THEN /\ status_code' = 400
                 /\ UNCHANGED folders
            ELSE /\ folders' = [folders EXCEPT ![folder_id].is_deleted = TRUE]
                 /\ status_code' = 200
    /\ UNCHANGED <<documents, versions, autoflush, permVars, cacheVars, uploadVars, session>>

\* DmsService.delete_folder + DmsRepository.delete_folder
DeleteFolder(folder_id) ==
    /\ IF ~GetFolder(folders, folder_id)
       THEN /\ status_code' = 404
            /\ UNCHANGED folders
       ELSE IF HasDocuments(folder_id) \/ HasSubfolders(folder_id)
            THEN /\ status_code' = 400
                 /\ UNCHANGED folders
            ELSE /\ folders' = [folders EXCEPT ![folder_id].is_deleted = TRUE]
                 /\ status_code' = 200
    /\ UNCHANGED <<documents, versions, autoflush, permVars, cacheVars, uploadVars, session>>

\* DmsRepository.move_folder for a folder and a parent that were found: the
\* pending rows after the folder's own update, then the cascade.
MoveFolderRows(folder_id, new_parent_id) ==
    LET new_path == IF new_parent_id # NoId
                    THEN Append(folders[new_parent_id].path, folders[folder_id].name)
                    ELSE <<folders[folder_id].name>>
        fs1 == [folders EXCEPT ![folder_id].parent_folder_id = new_parent_id,
                               ![folder_id].path = new_path]
    IN UpdateSubfolderPaths(fs1, folder_id, new_path, 1)

\* DmsService.move_folder + DmsRepository.move_folder
MoveFolder(folder_id, new_parent_id) ==
    /\ IF ~GetFolder(folders, folder_id)
       THEN /\ status_code' = 404
            /\ UNCHANGED folders
       ELSE IF new_parent_id # NoId /\ ~GetFolder(folders, new_parent_id)
            THEN /\ status_code' = 400
                 /\ UNCHANGED folders
            ELSE LET r == MoveFolderRows(folder_id, new_parent_id)
                 IN IF r.ok
                    THEN /\ folders' = r.fs
                         /\ status_code' = 200
                    ELSE /\ status_code' = 500
                         /\ UNCHANGED folders
    /\ UNCHANGED <<documents, versions, autoflush, permVars, cacheVars, uploadVars, session>>

\* -------------------------------------------------- document operations

Statuses == {"pending", "active", "archived", "failed"}
NoStatus == ""

\* get_document: the row with this id that is not soft-deleted, or None.
GetDocument(document_id) ==
    /\ document_id \in DocIds
    /\ documents[document_id].exists
    /\ ~documents[document_id].is_deleted

NewDocumentId == CHOOSE id \in DocIds :
    /\ ~documents[id].exists
    /\ \A j \in DocIds : j < id => documents[j].exists

\* (folder.document_count or 0) + 1
Incremented(document_count) ==
    (IF document_count = 0 THEN 0 ELSE document_count) + 1

\* max(0, (folder.document_count or 1) - 1)
Decremented(document_count) ==
    LET c == (IF document_count = 0 THEN 1 ELSE document_count) - 1
    IN IF c < 0 THEN 0 ELSE c

\* DmsRepository.create_document: the folder's counter after the call.
CreateDocumentFolders(folder_id) ==
    IF folder_id # NoId /\ GetFolder(folders, folder_id)
    THEN [folders EXCEPT ![folder_id].document_count =
              Incremented(folders[folder_id].document_count)]
    ELSE folders

\* DmsRepository.create_document: the new row.
CreateDocumentRow(folder_id, status) ==
    [exists |-> TRUE, folder_id |-> folder_id,
     folder_path |-> IF folder_id # NoId /\ GetFolder(folders, folder_id)
                     THEN folders[folder_id].path ELSE NoPath,
     status |-> status, version |-> 1, is_deleted |-> FALSE]

\* DmsService.create_document + DmsRepository.create_document
CreateDocument(folder_id) ==
    /\ \E id \in DocIds : ~documents[id].exists
    /\ IF ~GetFolder(folders, folder_id)
       THEN /\ status_code' = 404
            /\ UNCHANGED <<folders, documents>>
       ELSE /\ folders' = CreateDocumentFolders(folder_id)
            /\ documents' = [documents EXCEPT ![NewDocumentId] =
                                 CreateDocumentRow(folder_id, "pending")]
            /\ status_code' = 200
    /\ UNCHANGED <<versions, autoflush, permVars, cacheVars, uploadVars, session>>

\* DmsRepository.update_document, the folder_id branch: the counters after
\* old_folder's decrement and then new_folder's increment (old_folder is the
\* document.folder relationship: the row folder_id names, deleted or not).
UpdateDocumentFolders(document_id, folder_id) ==
    LET old_folder == documents[document_id].folder_id
        fs1 == IF old_folder # NoId /\ folders[old_folder].exists
               THEN [folders EXCEPT ![old_folder].document_count =
                         Decremented(folders[old_folder].document_count)]
               ELSE folders
    IN IF GetFolder(folders, folder_id)
       THEN [fs1 EXCEPT ![folder_id].document_count =
                 Incremented(fs1[folder_id].document_count)]
       ELSE fs1

\* DmsRepository.update_document: the document row after the call.
UpdateDocumentRow(document_id, folder_id, status) ==
    LET d1 == IF folder_id # NoId
              THEN [documents[document_id] EXCEPT
                        !.folder_id = folder_id,
                        !.folder_path = IF GetFolder(folders, folder_id)
                                        THEN folders[folder_id].path
                                        ELSE NoPath]
              ELSE documents[document_id]
    IN IF status # NoStatus THEN [d1 EXCEPT !.status = status] ELSE d1

\* DmsService.update_document + DmsRepository.update_document.  folder_id =
\* NoId and status = NoStatus are fields the update does not carry.  A
\* folder_id that names no row at all breaks the foreign key at flush.
UpdateDocument(document_id, folder_id, status) ==
    /\ IF ~GetDocument(document_id)
       THEN /\ status_code' = 404
            /\ UNCHANGED <<folders, documents>>
       ELSE IF folder_id # NoId /\ ~folders[folder_id].exists
            THEN /\ status_code' = 500
                 /\ UNCHANGED <<folders, documents>>
            ELSE /\ folders' = IF folder_id # NoId
                               THEN UpdateDocumentFolders(document_id, folder_id)
                               ELSE folders
                 /\ documents' = [documents EXCEPT ![document_id] =
                        UpdateDocumentRow(document_id, folder_id, status)]
                 /\ status_code' = 200
    /\ UNCHANGED <<versions, autoflush, permVars, cacheVars, uploadVars, session>>

\* DmsRepository.delete_document: the folder's counter after the call.
DeleteDocumentFolders(document_id) ==
    LET folder == documents[document_id].folder_id
    IN IF folder # NoId /\ folders[folder].exists
       THEN [folders EXCEPT ![folder].document_count =
                 Decremented(folders[folder].document_count)]
       ELSE folders

\* DmsService.delete_document + DmsRepository.delete_document
DeleteDocument(document_id) ==
    /\ IF ~GetDocument(document_id)
       THEN /\ status_code' = 404
            /\ UNCHANGED <<folders, documents>>
       ELSE /\ documents' = [documents EXCEPT ![document_id].is_deleted = TRUE]
            /\ folders' = DeleteDocumentFolders(document_id)
            /\ status_code' = 200
    /\ UNCHANGED <<versions, autoflush, permVars, cacheVars, uploadVars, session>>

\* func.max(version_number) of the document's rows, or 0
LatestVersion(document_id) ==
    LET ns == {v.version_number : v \in {x \in versions : x.document_id = document_id}}
    IN IF ns = {} THEN 0 ELSE CHOOSE n \in ns : \A m \in ns : m <= n

\* The version_number create_document_version gives the new row.
NextVersionNumber(document_id) == LatestVersion(document_id) + 1

\* DmsRepository.create_document_version (a ValueError for a document that
\* is not found writes nothing).
CreateDocumentVersion(document_id) ==
    /\ LatestVersion(document_id) < MaxVersions
    /\ IF ~GetDocument(document_id)
       THEN UNCHANGED <<documents, versions>>
       ELSE /\ versions' = versions \cup
                  {[document_id |-> document_id,
                    version_number |-> NextVersionNumber(document_id)]}
            /\ documents' = [documents EXCEPT ![document_id].version =
                                 NextVersionNumber(document_id)]
    /\ UNCHANGED <<folders, status_code, autoflush, permVars, cacheVars, uploadVars, session>>

\* ------------------------------------------------ folder permissions

MaxPerms == 2
MaxTime == 1

PermIds == 1..MaxPerms
Users == {"u1", "u2"}
Departments == {"d1"}
NoUser == ""
NoDepartment == ""
Levels == {"read", "write", "admin"}
NoExpiry == 0
Times == 1..MaxTime

NoPermission ==
    [exists |-> FALSE, folder_id |-> NoId, user_id |-> NoUser,
     department |-> NoDepartment, permission_level |-> "read",
     inherit_to_subfolders |-> FALSE, valid_until |-> NoExpiry]

NoCheck ==
    [document_id |-> NoId, folder_id |-> NoId, user_id |-> NoUser,
     user_department |-> NoDepartment, required_level |-> "read",
     result |-> FALSE]

NewPermissionId == CHOOSE id \in PermIds :
    /\ ~folder_permissions[id].exists
    /\ \A j \in PermIds : j < id => folder_permissions[j].exists

\* DmsService.grant_folder_permission + DmsRepository.grant_folder_permission
GrantFolderPermission(folder_id, permission_level, user_id, department, inherit_to_subfolders, valid_until) ==
    /\ check = NoCheck
    /\ \E id \in PermIds : ~folder_permissions[id].exists
    /\ IF ~GetFolder(folders, folder_id)
       THEN /\ status_code' = 404
            /\ UNCHANGED folder_permissions
       ELSE IF user_id = NoUser /\ department = NoDepartment
            THEN /\ status_code' = 400
                 /\ UNCHANGED folder_permissions
            ELSE /\ folder_permissions' =
                      [folder_permissions EXCEPT ![NewPermissionId] =
                          [exists |-> TRUE, folder_id |-> folder_id,
                           user_id |-> user_id, department |-> department,
                           permission_level |-> permission_level,
                           inherit_to_subfolders |-> inherit_to_subfolders,
                           valid_until |-> valid_until]]
                 /\ status_code' = 200
    /\ UNCHANGED <<folders, documents, versions, autoflush, now, check,
                   document_permissions, cacheVars, uploadVars, session>>

\* DmsService.revoke_folder_permission + DmsRepository.revoke_folder_permission:
\* the folder must be found; the row is looked up by permission_id alone.
RevokeFolderPermission(folder_id, permission_id) ==
    /\ check = NoCheck
    /\ IF ~GetFolder(folders, folder_id) \/ ~folder_permissions[permission_id].exists
       THEN /\ status_code' = 404
            /\ UNCHANGED folder_permissions
       ELSE /\ folder_permissions' =
                 [folder_permissions EXCEPT ![permission_id] = NoPermission]
            /\ status_code' = 200
    /\ UNCHANGED <<folders, documents, versions, autoflush, now, check,
                   document_permissions, cacheVars, uploadVars, session>>

\* _get_required_permissions: the levels that satisfy required_level
GetRequiredPermissions(required_level) ==
    CASE required_level = "read" -> {"read", "write", "admin"}
      [] required_level = "write" -> {"write", "admin"}
      [] required_level = "admin" -> {"admin"}
      [] OTHER -> {}

\* _is_permission_valid without its comparison with the clock
IsPermissionValidAlways(permission) == TRUE

\* _is_permission_valid: valid_until is None or lies after now
IsPermissionValid(permission) ==
    \/ permission.valid_until = NoExpiry
    \/ now < permission.valid_until

\* The rows of the direct user query of check_folder_permission
UserPermissions(folder_id, user_id, required_level) ==
    {p \in PermIds : /\ folder_permissions[p].exists
                     /\ folder_permissions[p].folder_id = folder_id
                     /\ folder_permissions[p].user_id = user_id
                     /\ folder_permissions[p].permission_level
                            \in GetRequiredPermissions(required_level)}

\* The rows of the department query
DeptPermissions(folder_id, user_department, required_level) ==
    {p \in PermIds : /\ folder_permissions[p].exists
                     /\ folder_permissions[p].folder_id = folder_id
                     /\ folder_permissions[p].department = user_department
                     /\ folder_permissions[p].permission_level
                            \in GetRequiredPermissions(required_level)}

\* The rows of the parent query: any row on the parent that inherits
ParentPermissions(parent_folder_id) ==
    {p \in PermIds : /\ folder_permissions[p].exists
                     /\ folder_permissions[p].folder_id = parent_folder_id
                     /\ folder_permissions[p].inherit_to_subfolders}

\* A query's .first() returns any one of its rows.  With rows to choose
\* from, the step "if permission and _is_permission_valid(permission): return
\* True" can return True when some row is valid, and can fall through when
\* there is no row or some row is not valid.
CanReturnTrue(rows) == \E p \in rows : IsPermissionValid(folder_permissions[p])
CanFallThrough(rows) ==
    rows = {} \/ \E p \in rows : ~IsPermissionValid(folder_permissions[p])

\* check_folder_permission: the set of results the call can return
\* (empty: the recursion never ends).
RECURSIVE CheckFolderPermission(_, _, _, _, _)
CheckFolderPermission(folder_id, user_id, user_department, required_level, depth) ==
    LET users == UserPermissions(folder_id, user_id, required_level)
        depts == DeptPermissions(folder_id, user_department, required_level)
        parent == folders[folder_id].parent_folder_id
        inherited ==
            IF /\ GetFolder(folders, folder_id)
               /\ parent # NoId
               /\ ParentPermissions(parent) # {}
            THEN IF depth >= RecursionLimit THEN {}
                 ELSE CheckFolderPermission(parent, user_id, user_department,
                                            required_level, depth + 1)
            ELSE {FALSE}
        byDepartment ==
            IF user_department = NoDepartment
            THEN inherited
            ELSE (IF CanReturnTrue(depts) THEN {TRUE} ELSE {})
                 \cup (IF CanFallThrough(depts) THEN inherited ELSE {})
    IN (IF CanReturnTrue(users) THEN {TRUE} ELSE {})
       \cup (IF CanFallThrough(users) THEN byDepartment ELSE {})

\* A caller runs check_folder_permission and holds its result.
CheckFolder(folder_id, user_id, user_department, required_level) ==
    /\ check = NoCheck
    /\ folders[folder_id].exists
    /\ \E r \in CheckFolderPermission(folder_id, user_id, user_department,
                                      required_level, 1) :
          check' = [document_id |-> NoId, folder_id |-> folder_id,
                    user_id |-> user_id,
                    user_department |-> user_department,
                    required_level |-> required_level, result |-> r]
    /\ UNCHANGED <<folders, documents, versions, autoflush, status_code,
                   folder_permissions, now, document_permissions,
                   cacheVars, uploadVars, session>>

\* The caller is done with the result.
CheckDone ==
    /\ check # NoCheck
    /\ check' = NoCheck
    /\ UNCHANGED <<folders, documents, versions, autoflush, status_code,
                   folder_permissions, now, document_permissions,
                   cacheVars, uploadVars, session>>

\* Time passes (datetime.now() grows).
Tick ==
    /\ check = NoCheck
    /\ now < MaxTime
    /\ now' = now + 1
    /\ UNCHANGED <<folders, documents, versions, autoflush, status_code,
                   folder_permissions, check, document_permissions,
                   cacheVars, uploadVars, session>>

\* DmsDocumentPermission rows
MaxDocPerms == 1
DocPermIds == 1..MaxDocPerms

NoDocumentPermission ==
    [exists |-> FALSE, document_id |-> NoId, user_id |-> NoUser,
     permission_level |-> "read", valid_until |-> NoExpiry]

NewDocumentPermissionId == CHOOSE id \in DocPermIds :
    /\ ~document_permissions[id].exists
    /\ \A j \in DocPermIds : j < id => document_permissions[j].exists

\* DmsService.grant_document_permission + DmsRepository.grant_document_permission
GrantDocumentPermission(document_id, user_id, permission_level, valid_until) ==
    /\ check = NoCheck
    /\ \E id \in DocPermIds : ~document_permissions[id].exists
    /\ IF ~GetDocument(document_id)
       THEN /\ status_code' = 404
            /\ UNCHANGED document_permissions
       ELSE /\ document_permissions' =
                 [document_permissions EXCEPT ![NewDocumentPermissionId] =
                     [exists |-> TRUE, document_id |-> document_id,
                      user_id |-> user_id,
                      permission_level |-> permission_level,
                      valid_until |-> valid_until]]
            /\ status_code' = 200
    /\ UNCHANGED <<folders, documents, versions, autoflush, folder_permissions,
                   now, check, cacheVars, uploadVars, session>>

\* DmsService.revoke_document_permission + DmsRepository.revoke_document_permission:
\* the document must be found; the row is looked up by permission_id alone.
RevokeDocumentPermission(document_id, permission_id) ==
    /\ check = NoCheck
    /\ IF ~GetDocument(document_id) \/ ~document_permissions[permission_id].exists
       THEN /\ status_code' = 404
            /\ UNCHANGED document_permissions
       ELSE /\ document_permissions' =
                 [document_permissions EXCEPT ![permission_id] =
                     NoDocumentPermission]
            /\ status_code' = 200
    /\ UNCHANGED <<folders, documents, versions, autoflush, folder_permissions,
                   now, check, cacheVars, uploadVars, session>>

\* The rows of the document-specific query of check_document_permission
DocPermissions(document_id, user_id, required_level) ==
    {p \in DocPermIds : /\ document_permissions[p].exists
                        /\ document_permissions[p].document_id = document_id
                        /\ document_permissions[p].user_id = user_id
                        /\ document_permissions[p].permission_level
                               \in GetRequiredPermissions(required_level)}

\* check_document_permission: the set of results the call can return.
\* .first() returns any one row of the document-specific query.  The
\* fall-back passes the folder, the user and the level to
\* check_folder_permission, whose user_department then is None.
CheckDocumentPermission(document_id, user_id, required_level) ==
    LET rows == DocPermissions(document_id, user_id, required_level)
        fallback ==
            IF documents[document_id].folder_id # NoId
            THEN CheckFolderPermission(documents[document_id].folder_id,
                                       user_id, NoDepartment, required_level, 1)
            ELSE {FALSE}
    IN IF ~GetDocument(document_id) THEN {FALSE}
       ELSE (IF \E p \in rows : IsPermissionValid(document_permissions[p])
             THEN {TRUE} ELSE {})
            \cup (IF rows = {} \/ \E p \in rows :
                                     ~IsPermissionValid(document_permissions[p])
                  THEN fallback ELSE {})

\* A caller runs check_document_permission and holds its result.
CheckDocument(document_id, user_id, required_level) ==
    /\ check = NoCheck
    /\ \E r \in CheckDocumentPermission(document_id, user_id, required_level) :
          check' = [document_id |-> document_id,
                    folder_id |-> documents[document_id].folder_id,
                    user_id |-> user_id, user_department |-> NoDepartment,
                    required_level |-> required_level, result |-> r]
    /\ UNCHANGED <<folders, documents, versions, autoflush, status_code,
                   folder_permissions, now, document_permissions,
                   cacheVars, uploadVars, session>>

\* ------------------------------------- document calls, step by step

\* Two requests run in two Sessions, each in its own transaction.  A call
\* first loads the rows it works on (Load...), then changes the loaded
\* objects, flushes and commits (CommitSession).  Under READ COMMITTED the
\* flush of the second writer waits for the first writer's commit and then
\* writes the values its Session computed from the rows it had loaded.

\* create_document on the loaded rows: the folder rows after the call
CreatedCounts(fs, folder_id) ==
    [fs EXCEPT ![folder_id].document_count =
         Incremented(fs[folder_id].document_count)]

\* delete_document on the loaded rows
DeletedCounts(fs, ds, document_id) ==
    LET folder == ds[document_id].folder_id
    IN IF folder # NoId /\ fs[folder].exists
       THEN [fs EXCEPT ![folder].document_count =
                 Decremented(fs[folder].document_count)]
       ELSE fs

\* update_document's folder_id branch on the loaded rows
MovedCounts(fs, ds, document_id, folder_id) ==
    LET old_folder == ds[document_id].folder_id
        fs1 == IF old_folder # NoId /\ fs[old_folder].exists
               THEN [fs EXCEPT ![old_folder].document_count =
                         Decremented(fs[old_folder].document_count)]
               ELSE fs
    IN IF GetFolder(fs, folder_id)
       THEN [fs1 EXCEPT ![folder_id].document_count =
                 Incremented(fs1[folder_id].document_count)]
       ELSE fs1

\* The rows as worker w's Session loaded them
LoadedFolders(w) ==
    [f \in FolderIds |->
        [folders[f] EXCEPT !.document_count =
            IF f = session[w].old_folder THEN session[w].old_count
            ELSE IF f = session[w].folder_id THEN session[w].new_count
            ELSE folders[f].document_count]]

LoadedDocuments(w) ==
    IF session[w].document_id = NoId THEN documents
    ELSE [documents EXCEPT ![session[w].document_id].folder_id =
              session[w].old_folder]

\* The folder rows of worker w's Session when it flushes
SessionFolders(w) ==
    LET t == session[w]
    IN CASE t.op = "create" -> CreatedCounts(LoadedFolders(w), t.folder_id)
         [] t.op = "delete" -> DeletedCounts(LoadedFolders(w), LoadedDocuments(w),
                                             t.document_id)
         [] t.op = "move" -> MovedCounts(LoadedFolders(w), LoadedDocuments(w),
                                         t.document_id, t.folder_id)
         [] OTHER -> LoadedFolders(w)

\* The flush: an UPDATE of document_count for every folder whose counter
\* the Session changed, with the value the Session holds.
FlushedFolders(w) ==
    [f \in FolderIds |->
        IF SessionFolders(w)[f].document_count
               # LoadedFolders(w)[f].document_count
        THEN [folders[f] EXCEPT
                 !.document_count = SessionFolders(w)[f].document_count]
        ELSE folders[f]]

\* The flush: the INSERT or UPDATE of the document row
FlushedDocuments(w) ==
    LET t == session[w]
    IN CASE t.op = "create" ->
              [documents EXCEPT ![NewDocumentId] =
                  [exists |-> TRUE, folder_id |-> t.folder_id,
                   folder_path |-> folders[t.folder_id].path,
                   status |-> "pending", version |-> 1, is_deleted |-> FALSE]]
         [] t.op = "delete" ->
              [documents EXCEPT ![t.document_id].is_deleted = TRUE]
         [] t.op = "move" ->
              [documents EXCEPT
                  ![t.document_id].folder_id = t.folder_id,
                  ![t.document_id].folder_path = folders[t.folder_id].path]
         [] OTHER -> documents

\* The documents that exist or are about to be inserted by an open Session
PendingCreates == {w \in Workers : session[w].op = "create"}

\* DmsService.create_document up to get_folder: the folder row is loaded.
LoadCreateDocument(w, folder_id) ==
    /\ session[w] = NoSession
    /\ Cardinality({d \in DocIds : documents[d].exists})
           + Cardinality(PendingCreates) < MaxDocs
    /\ IF ~GetFolder(folders, folder_id)
       THEN /\ status_code' = 404
            /\ UNCHANGED session
       ELSE /\ session' = [session EXCEPT ![w] =
                  [op |-> "create", document_id |-> NoId,
                   folder_id |-> folder_id, old_folder |-> NoId,
                   old_count |-> 0,
                   new_count |-> folders[folder_id].document_count]]
            /\ UNCHANGED status_code
    /\ UNCHANGED <<folders, documents, versions, autoflush, permVars,
                   cacheVars, uploadVars>>

\* DmsService.delete_document up to get_document and document.folder
LoadDeleteDocument(w, document_id) ==
    /\ session[w] = NoSession
    /\ IF ~GetDocument(document_id)
       THEN /\ status_code' = 404
            /\ UNCHANGED session
       ELSE /\ session' = [session EXCEPT ![w] =
                  [op |-> "delete", document_id |-> document_id,
                   folder_id |-> NoId,
                   old_folder |-> documents[document_id].folder_id,
                   old_count |->
                       folders[documents[document_id].folder_id].document_count,
                   new_count |-> 0]]
            /\ UNCHANGED status_code
    /\ UNCHANGED <<folders, documents, versions, autoflush, permVars,
                   cacheVars, uploadVars>>

\* DmsService.update_document with a folder_id, up to get_document,
\* document.folder and get_folder
LoadUpdateDocument(w, document_id, folder_id) ==
    /\ session[w] = NoSession
    /\ IF ~GetDocument(document_id)
       THEN /\ status_code' = 404
            /\ UNCHANGED session
       ELSE IF ~GetFolder(folders, folder_id)
            THEN \* folder_id names no row: the foreign key fails at flush
                 /\ status_code' = 500
                 /\ UNCHANGED session
            ELSE /\ session' = [session EXCEPT ![w] =
                       [op |-> "move", document_id |-> document_id,
                        folder_id |-> folder_id,
                        old_folder |-> documents[document_id].folder_id,
                        old_count |->
                            folders[documents[document_id].folder_id].document_count,
                        new_count |-> folders[folder_id].document_count]]
                 /\ UNCHANGED status_code
    /\ UNCHANGED <<folders, documents, versions, autoflush, permVars,
                   cacheVars, uploadVars>>

\* The rest of the call: the changes to the loaded objects, flush(), commit()
CommitSession(w) ==
    /\ session[w] # NoSession
    /\ \A f \in FolderIds : FlushedFolders(w)[f].document_count <= MaxCount
    /\ folders' = FlushedFolders(w)
    /\ documents' = FlushedDocuments(w)
    /\ session' = [session EXCEPT ![w] = NoSession]
    /\ status_code' = 200
    /\ UNCHANGED <<versions, autoflush, permVars, cacheVars, uploadVars>>

\* ------------------------------------------------------------- uploads

\* What the category_id argument of an upload comes to: "none" (not given),
\* "found" (add_document_category inserts the association), "missing" (no
\* such category: add_document_category returns False) or "error" (the
\* statement raises).
CategoryOutcomes == {"none", "found", "missing", "error"}

\* DmsRepository.add_document_category on the new document
AddDocumentCategory(document_id, category) ==
    IF category = "found"
    THEN document_categories \cup {document_id}
    ELSE document_categories

\* DmsService.upload_document: the row is created as active, the content is
\* written with save_file (saved is whether the write succeeds), the
\* category is added, and all of it is committed; any failure rolls back.
\* A file written before a rollback stays at a path that no row names.
UploadDocument(folder_id, saved, category) ==
    /\ \E id \in DocIds : ~documents[id].exists
    /\ IF ~GetFolder(folders, folder_id)
       THEN /\ status_code' = 404
            /\ UNCHANGED <<folders, documents, storage, document_categories>>
       ELSE IF ~saved \/ category = "error"
       THEN /\ status_code' = 500
            /\ UNCHANGED <<folders, documents, storage, document_categories>>
       ELSE /\ folders' = CreateDocumentFolders(folder_id)
            /\ documents' = [documents EXCEPT ![NewDocumentId] =
                                 CreateDocumentRow(folder_id, "active")]
            /\ storage' = storage \cup {NewDocumentId}
            /\ document_categories' = AddDocumentCategory(NewDocumentId, category)
            /\ status_code' = 200
    /\ UNCHANGED <<versions, autoflush, permVars, cacheVars, session>>

\* DmsService.generate_upload_url: DmsService.create_document creates and
\* COMMITS the pending row; the category is added and committed after it.
\* An exception in the second part answers 500 and leaves the first part.
GenerateUploadUrl(folder_id, category) ==
    /\ \E id \in DocIds : ~documents[id].exists
    /\ IF ~GetFolder(folders, folder_id)
       THEN /\ status_code' = 404
            /\ UNCHANGED <<folders, documents, document_categories>>
       ELSE /\ folders' = CreateDocumentFolders(folder_id)
            /\ documents' = [documents EXCEPT ![NewDocumentId] =
                                 CreateDocumentRow(folder_id, "pending")]
            /\ document_categories' = AddDocumentCategory(NewDocumentId, category)
            /\ status_code' = IF category = "error" THEN 500 ELSE 200
    /\ UNCHANGED <<versions, autoflush, storage, permVars, cacheVars, session>>

\* DmsService.confirm_upload: update_document(status="active") and commit
ConfirmUpload(document_id) ==
    /\ IF ~GetDocument(document_id)
       THEN /\ status_code' = 404
            /\ UNCHANGED documents
       ELSE /\ documents' = [documents EXCEPT ![document_id] =
                                 UpdateDocumentRow(document_id, NoId, "active")]
            /\ status_code' = 200
    /\ UNCHANGED <<folders, versions, autoflush, permVars, cacheVars, uploadVars, session>>

\* ------------------------------------------------- remote file cache

MaxFiles == 2
FileIds == 1..MaxFiles
Tenders == {"t1", "t2"}
NoTender == ""
NoError == ""

NoFile ==
    [exists |-> FALSE, tender_id |-> NoTender, has_url |-> FALSE,
     is_cached |-> FALSE, cache_status |-> "pending", cache_error |-> NoError]

\* What a worker's session holds of a row: its id and the values loaded.
NoRecord ==
    [id |-> NoId, is_cached |-> FALSE, cache_status |-> "pending",
     cache_error |-> NoError, has_url |-> FALSE]

\* A running call: for bulk_cache_files its list files (the query's result),
\* the rows of it the loop has not come to yet, and the two counters.
NoCall ==
    [op |-> "none", files |-> {}, todo |-> {}, cached_count |-> 0,
     failed_count |-> 0]

NoResult == [op |-> "none", success |-> FALSE, message |-> "",
             cached_count |-> 0, failed_count |-> 0]

\* db.query(ScrapedTenderFile).filter(id == file_id).first(): found or not
FileFound(file_id) == file_id \in FileIds /\ files[file_id].exists

\* The ORM object a query returns for row id, as the database has it now.
Loaded(db, id) ==
    [id |-> id, is_cached |-> db[id].is_cached,
     cache_status |-> db[id].cache_status,
     cache_error |-> db[id].cache_error, has_url |-> db[id].has_url]

\* db.commit() of the object a worker changed: the UPDATE carries the
\* attributes whose value differs from the value loaded, and no others.
Committed(row, loaded, is_cached, cache_status, cache_error) ==
    [row EXCEPT
        !.is_cached = IF is_cached # loaded.is_cached THEN is_cached ELSE @,
        !.cache_status = IF cache_status # loaded.cache_status THEN cache_status ELSE @,
        !.cache_error = IF cache_error # loaded.cache_error THEN cache_error ELSE @]

\* A (success, message) return value of cache_file_async
Returned(op, success, message) ==
    [op |-> op, success |-> success, message |-> message,
     cached_count |-> 0, failed_count |-> 0]

\* FileStorageService.read_file: succeeds when the file is on disk and
\* reading it raises nothing (read); any exception gives (False, None).
ReadFile(file_id, read) == file_id \in disk /\ read

\* What get_file returns.  fetched is whether the remote GET succeeds,
\* should the call come to it.
GetFileResult(file_id, read, fetched) ==
    IF ~FileFound(file_id)
    THEN Returned("get_file", FALSE, "File not found in database")
    ELSE IF files[file_id].is_cached /\ ReadFile(file_id, read)
    THEN Returned("get_file", TRUE, "local_cache")
    ELSE IF ~files[file_id].has_url
    THEN Returned("get_file", FALSE, "No file URL or cached copy available")
    ELSE IF fetched
    THEN Returned("get_file", TRUE, "remote")
    ELSE Returned("get_file", FALSE, "Failed to fetch remote file")

\* get_file that keeps what it fetched: a remote hit marks the row cached
GetFileCaching(w, file_id, read, fetched) ==
    /\ pc[w] = "idle"
    /\ result' = GetFileResult(file_id, read, fetched)
    /\ IF result'.message = "remote"
       THEN /\ files' = [files EXCEPT ![file_id].is_cached = TRUE,
                                      ![file_id].cache_status = "cached"]
            /\ disk' = disk \cup {file_id}
       ELSE UNCHANGED <<files, disk>>
    /\ UNCHANGED <<pc, file_record, call>>
    /\ UNCHANGED <<folders, documents, versions, autoflush, status_code, permVars, uploadVars, session>>

\* get_file that trusts is_cached without looking at read_file's success
GetFileUnread(w, file_id, read, fetched) ==
    /\ pc[w] = "idle"
    /\ result' = GetFileResult(file_id, TRUE, fetched)
    /\ UNCHANGED <<files, disk, pc, file_record, call>>
    /\ UNCHANGED <<folders, documents, versions, autoflush, status_code, permVars, uploadVars, session>>

\* RemoteFileManager.get_file: reads only.
GetFile(w, file_id, read, fetched) ==
    /\ pc[w] = "idle"
    /\ result' = GetFileResult(file_id, read, fetched)
    /\ UNCHANGED <<files, disk, pc, file_record, call>>
    /\ UNCHANGED <<folders, documents, versions, autoflush, status_code, permVars, uploadVars, session>>

\* cache_file_async without its "if file_record.is_cached" early return
CacheFileAsyncUnchecked(w, file_id) ==
    /\ pc[w] = "idle"
    /\ IF ~FileFound(file_id)
       THEN /\ result' = Returned("cache_file", FALSE, "File not found")
            /\ UNCHANGED <<pc, file_record, call>>
       ELSE IF ~files[file_id].has_url
       THEN /\ result' =
                   Returned("cache_file", FALSE, "No remote URL to cache from")
            /\ UNCHANGED <<pc, file_record, call>>
       ELSE /\ pc' = [pc EXCEPT ![w] = "download"]
            /\ file_record' = [file_record EXCEPT ![w] = Loaded(files, file_id)]
            /\ call' = [call EXCEPT ![w] = [NoCall EXCEPT !.op = "cache_file"]]
            /\ UNCHANGED result
    /\ UNCHANGED <<files, disk>>
    /\ UNCHANGED <<folders, documents, versions, autoflush, status_code, permVars, uploadVars, session>>

\* RemoteFileManager.cache_file_async up to the call of cache_file_sync
\* (whose first statement sends the GET).
CacheFileAsync(w, file_id) ==
    /\ pc[w] = "idle"
    /\ IF ~FileFound(file_id)
       THEN /\ result' =
                   Returned("cache_file", FALSE, "File not found")
            /\ UNCHANGED <<pc, file_record, call>>
       ELSE IF files[file_id].is_cached
       THEN /\ result' =
                   Returned("cache_file", TRUE, "File already cached")
            /\ UNCHANGED <<pc, file_record, call>>
       ELSE IF ~files[file_id].has_url
       THEN /\ result' =
                   Returned("cache_file", FALSE, "No remote URL to cache from")
            /\ UNCHANGED <<pc, file_record, call>>
       ELSE /\ pc' = [pc EXCEPT ![w] = "download"]
            /\ file_record' = [file_record EXCEPT ![w] = Loaded(files, file_id)]
            /\ call' = [call EXCEPT ![w] = [NoCall EXCEPT !.op = "cache_file"]]
            /\ UNCHANGED result
    /\ UNCHANGED <<files, disk>>
    /\ UNCHANGED <<folders, documents, versions, autoflush, status_code, permVars, uploadVars, session>>

\* bulk_cache_files' query: the tender's rows with is_cached == False
UncachedFiles(tender_id) ==
    {f \in FileIds : /\ files[f].exists
                     /\ files[f].tender_id = tender_id
                     /\ ~files[f].is_cached}

\* RemoteFileManager.bulk_cache_files up to the first cache_file_sync call;
\* first is the row the query lists first.
BulkCacheFiles(w, tender_id) ==
    /\ pc[w] = "idle"
    /\ IF UncachedFiles(tender_id) = {}
       THEN /\ result' =
                   [Returned("bulk_cache", TRUE, "") EXCEPT
                       !.cached_count = 0, !.failed_count = 0]
            /\ UNCHANGED <<pc, file_record, call>>
       ELSE \E first \in UncachedFiles(tender_id) :
            /\ pc' = [pc EXCEPT ![w] = "download"]
            /\ file_record' = [file_record EXCEPT ![w] = Loaded(files, first)]
            /\ call' = [call EXCEPT ![w] =
                   [op |-> "bulk_cache",
                    files |-> UncachedFiles(tender_id),
                    todo |-> UncachedFiles(tender_id) \ {first},
                    cached_count |-> 0, failed_count |-> 0]]
            /\ UNCHANGED result
    /\ UNCHANGED <<files, disk>>
    /\ UNCHANGED <<folders, documents, versions, autoflush, status_code, permVars, uploadVars, session>>

\* bulk_cache_files whose loop stops at the first row that fails
FinishedAborting(w, db, success, message) ==
    IF call[w].op = "cache_file"
    THEN /\ result' = Returned("cache_file", success, message)
         /\ pc' = [pc EXCEPT ![w] = "idle"]
         /\ file_record' = [file_record EXCEPT ![w] = NoRecord]
         /\ call' = [call EXCEPT ![w] = NoCall]
    ELSE LET cached == call[w].cached_count + (IF success THEN 1 ELSE 0)
             failed == call[w].failed_count + (IF success THEN 0 ELSE 1)
         IN IF call[w].todo = {} \/ ~success
            THEN /\ result' =
                        [Returned("bulk_cache", TRUE, "") EXCEPT
                            !.cached_count = cached, !.failed_count = failed]
                 /\ pc' = [pc EXCEPT ![w] = "idle"]
                 /\ file_record' = [file_record EXCEPT ![w] = NoRecord]
                 /\ call' = [call EXCEPT ![w] = NoCall]
            ELSE \E next \in call[w].todo :
                 /\ pc' = [pc EXCEPT ![w] = "download"]
                 /\ file_record' = [file_record EXCEPT ![w] = Loaded(db, next)]
                 /\ call' = [call EXCEPT ![w] =
                        [call[w] EXCEPT !.todo = @ \ {next},
                                        !.cached_count = cached,
                                        !.failed_count = failed]]
                 /\ UNCHANGED result

\* The end of one cache_file_sync call, after its commit left the rows db:
\* cache_file_async returns its (success, message); bulk_cache_files counts
\* it and goes on to the next row (whose values the session reloads, the
\* commit having expired them) or returns its two counters.
Finished(w, db, success, message) ==
    IF call[w].op = "cache_file"
    THEN /\ result' = Returned("cache_file", success, message)
         /\ pc' = [pc EXCEPT ![w] = "idle"]
         /\ file_record' = [file_record EXCEPT ![w] = NoRecord]
         /\ call' = [call EXCEPT ![w] = NoCall]
    ELSE LET cached == call[w].cached_count + (IF success THEN 1 ELSE 0)
             failed == call[w].failed_count + (IF success THEN 0 ELSE 1)
         IN IF call[w].todo = {}
            THEN /\ result' =
                        [Returned("bulk_cache", TRUE, "") EXCEPT
                            !.cached_count = cached, !.failed_count = failed]
                 /\ pc' = [pc EXCEPT ![w] = "idle"]
                 /\ file_record' = [file_record EXCEPT ![w] = NoRecord]
                 /\ call' = [call EXCEPT ![w] = NoCall]
            ELSE \E next \in call[w].todo :
                 /\ pc' = [pc EXCEPT ![w] = "download"]
                 /\ file_record' = [file_record EXCEPT ![w] = Loaded(db, next)]
                 /\ call' = [call EXCEPT ![w] =
                        [call[w] EXCEPT !.todo = @ \ {next},
                                        !.cached_count = cached,
                                        !.failed_count = failed]]
                 /\ UNCHANGED result

\* cache_file_sync's failure branches: cache_status and cache_error set on
\* the object, commit, return False.
CacheFailed(w, cache_error, message) ==
    LET id == file_record[w].id
        db == [files EXCEPT ![id] =
                  Committed(files[id], file_record[w], file_record[w].is_cached,
                            "failed", cache_error)]
    IN /\ files' = db
       /\ Finished(w, db, FALSE, message)

\* cache_file_sync's success branch: the three attributes set, commit.
CacheSucceeded(w) ==
    LET id == file_record[w].id
        db == [files EXCEPT ![id] =
                  Committed(files[id], file_record[w], TRUE, "cached", NoError)]
    IN /\ files' = db
       /\ Finished(w, db, TRUE, "File cached successfully")

\* cache_file_sync: requests.get(file_url, timeout=60) and raise_for_status()
\* end.  outcome is "ok", "request_error" (a RequestException; the only
\* outcome for a row with no URL) or "error" (any other exception).
Download(w, outcome) ==
    /\ pc[w] = "download"
    /\ ~file_record[w].has_url => outcome = "request_error"
    /\ CASE outcome = "ok" ->
              /\ pc' = [pc EXCEPT ![w] = "save"]
              /\ UNCHANGED <<files, file_record, call, result>>
         [] outcome = "request_error" ->
              CacheFailed(w, "Download failed", "Failed to download file")
         [] OTHER ->
              CacheFailed(w, "Unexpected error", "Unexpected error")
    /\ UNCHANGED disk
    /\ UNCHANGED <<folders, documents, versions, autoflush, status_code, permVars, uploadVars, session>>

\* cache_file_sync: FileStorageService.save_file(content, dms_path) and the
\* commit after it.  saved is whether the write to disk succeeds.
Save(w, saved) ==
    /\ pc[w] = "save"
    /\ IF saved
       THEN /\ disk' = disk \cup {file_record[w].id}
            /\ CacheSucceeded(w)
       ELSE /\ UNCHANGED disk
            /\ CacheFailed(w, "Error saving file", "Failed to save file")
    /\ UNCHANGED <<folders, documents, versions, autoflush, status_code, permVars, uploadVars, session>>

vars ==
    <<folders, documents, versions, autoflush, status_code, permVars, cacheVars,
      uploadVars, session>>

\* The model stops at paths of MaxPathLen names (a committed cycle lets
\* renames lengthen a path without end).
PathsBounded == \A f \in FolderIds : Len(folders'[f].path) <= MaxPathLen

\* ------------------------------------------------------ initial states

StoreEmpty ==
    /\ folders = [id \in FolderIds |-> NoFolder]
    /\ documents = [id \in DocIds |-> NoDocument]
    /\ versions = {}
    /\ status_code = 200
    /\ storage = {}
    /\ document_categories = {}
    /\ session = [w \in Workers |-> NoSession]

PermsEmpty ==
    /\ folder_permissions = [id \in PermIds |-> NoPermission]
    /\ now = 0
    /\ check = NoCheck
    /\ document_permissions = [id \in DocPermIds |-> NoDocumentPermission]

CacheEmpty ==
    /\ files = [id \in FileIds |-> NoFile]
    /\ disk = {}
    /\ pc = [w \in Workers |-> "idle"]
    /\ file_record = [w \in Workers |-> NoRecord]
    /\ call = [w \in Workers |-> NoCall]
    /\ result = NoResult

\* --------------------------------------------- the folder store alone

Init ==
    /\ StoreEmpty
    /\ autoflush \in BOOLEAN
    /\ PermsEmpty
    /\ CacheEmpty

Next ==
    \/ \E name \in Names, parent \in FolderIds \cup {NoId} :
           CreateFolder(name, parent) /\ PathsBounded
    \/ \E f \in FolderIds, name \in Names \cup {NoName} :
           UpdateFolder(f, name) /\ PathsBounded
    \/ \E f \in FolderIds : DeleteFolder(f)
    \/ \E f \in FolderIds, parent \in FolderIds \cup {NoId} :
           MoveFolder(f, parent) /\ PathsBounded

Spec == Init /\ [][Next]_vars

\* The same store under a Session that flushes before every query.
InitAutoflush == Init /\ autoflush

SpecAutoflush == InitAutoflush /\ [][Next]_vars

\* ------------------------------------- documents in root-level folders

NextDocs ==
    \/ CreateFolder("a", NoId)
    \/ \E f \in FolderIds : DeleteFolder(f)
    \/ \E f \in FolderIds : CreateDocument(f)
    \/ \E d \in DocIds, f \in FolderIds \cup {NoId}, st \in {NoStatus, "active"} :
           UpdateDocument(d, f, st)
    \/ \E d \in DocIds : DeleteDocument(d)
    \/ \E d \in DocIds : CreateDocumentVersion(d)

SpecDocs == InitAutoflush /\ [][NextDocs]_vars

\* ---------------------- permissions on a chain of folders /a/a/.../a/

\* The store after create_folder("a"), create_folder("a", 1), ...: folder 1
\* at the root and every other folder inside the one before it.
RECURSIVE ChainPath(_)
ChainPath(f) == IF f = 1 THEN <<"a">> ELSE Append(ChainPath(f - 1), "a")

InitPerm ==
    /\ folders = [f \in FolderIds |->
          [exists |-> TRUE, name |-> "a", parent_folder_id |-> f - 1,
           path |-> ChainPath(f), document_count |-> 0, is_deleted |-> FALSE]]
    /\ documents = [id \in DocIds |-> NoDocument]
    /\ versions = {}
    /\ status_code = 200
    /\ storage = {}
    /\ document_categories = {}
    /\ session = [w \in Workers |-> NoSession]
    /\ autoflush = TRUE
    /\ PermsEmpty
    /\ CacheEmpty

NextPerm ==
    \/ \E f \in FolderIds, level \in Levels, u \in {NoUser, "u1"},
          d \in {NoDepartment} \cup Departments, inherit \in BOOLEAN,
          until \in {NoExpiry} \cup Times :
           /\ (u = NoUser) # (d = NoDepartment)
           /\ GrantFolderPermission(f, level, u, d, inherit, until)
    \/ \E f \in FolderIds, p \in PermIds : RevokeFolderPermission(f, p)
    \/ \E f \in FolderIds, u \in Users, d \in {NoDepartment} \cup Departments,
          level \in Levels : CheckFolder(f, u, d, level)
    \/ CheckDone
    \/ Tick

SpecPerm == InitPerm /\ [][NextPerm]_vars

\* ------------------------------------ folders, documents and deletion

NextDelete ==
    \/ \E parent \in FolderIds \cup {NoId} :
           CreateFolder("a", parent) /\ PathsBounded
    \/ \E f \in FolderIds, parent \in FolderIds \cup {NoId} :
           MoveFolder(f, parent) /\ PathsBounded
    \/ \E f \in FolderIds : DeleteFolder(f)
    \/ \E f \in FolderIds : CreateDocument(f)
    \/ \E d \in DocIds, f \in FolderIds : UpdateDocument(d, f, NoStatus)
    \/ \E d \in DocIds : DeleteDocument(d)

SpecDelete == InitAutoflush /\ [][NextDelete]_vars

\* ------------------------------------------ grants and revocations

\* The store of InitPerm after create_document in the innermost folder, once
\* for every document id.
InitRevoke ==
    /\ folders = [f \in FolderIds |->
          [exists |-> TRUE, name |-> "a", parent_folder_id |-> f - 1,
           path |-> ChainPath(f),
           document_count |-> IF f = MaxFolders THEN MaxDocs ELSE 0,
           is_deleted |-> FALSE]]
    /\ documents = [id \in DocIds |->
          [exists |-> TRUE, folder_id |-> MaxFolders,
           folder_path |-> ChainPath(MaxFolders), status |-> "pending",
           version |-> 1, is_deleted |-> FALSE]]
    /\ versions = {}
    /\ status_code = 200
    /\ storage = {}
    /\ document_categories = {}
    /\ session = [w \in Workers |-> NoSession]
    /\ autoflush = TRUE
    /\ PermsEmpty
    /\ CacheEmpty

NextRevoke ==
    \/ \E f \in FolderIds, u \in {NoUser, "u1"}, inherit \in BOOLEAN :
           GrantFolderPermission(f, "read", u,
                                 IF u = NoUser THEN "d1" ELSE NoDepartment,
                                 inherit, NoExpiry)
    \/ \E f \in FolderIds, p \in PermIds : RevokeFolderPermission(f, p)
    \/ \E doc \in DocIds, u \in Users :
           GrantDocumentPermission(doc, u, "read", NoExpiry)
    \/ \E doc \in DocIds, p \in DocPermIds : RevokeDocumentPermission(doc, p)

SpecRevoke == InitRevoke /\ [][NextRevoke]_vars

\* ------------------------------ document calls in two transactions

\* The store after two calls of create_folder("a") at the root
InitSessions ==
    /\ folders = [f \in FolderIds |->
          IF f <= 2
          THEN [exists |-> TRUE, name |-> "a", parent_folder_id |-> NoId,
                path |-> <<"a">>, document_count |-> 0, is_deleted |-> FALSE]
          ELSE NoFolder]
    /\ documents = [id \in DocIds |-> NoDocument]
    /\ versions = {}
    /\ status_code = 200
    /\ storage = {}
    /\ document_categories = {}
    /\ session = [w \in Workers |-> NoSession]
    /\ autoflush = TRUE
    /\ PermsEmpty
    /\ CacheEmpty

NextSessions ==
    \/ \E w \in Workers, f \in FolderIds : LoadCreateDocument(w, f)
    \/ \E w \in Workers, d \in DocIds : LoadDeleteDocument(w, d)
    \/ \E w \in Workers, d \in DocIds, f \in FolderIds :
           LoadUpdateDocument(w, d, f)
    \/ \E w \in Workers : CommitSession(w)

SpecSessions == InitSessions /\ [][NextSessions]_vars

\* The store of InitPerm after one create_document in the innermost folder.
InitDocPerm ==
    /\ folders = [f \in FolderIds |->
          [exists |-> TRUE, name |-> "a", parent_folder_id |-> f - 1,
           path |-> ChainPath(f),
           document_count |-> IF f = MaxFolders THEN 1 ELSE 0,
           is_deleted |-> FALSE]]
    /\ documents = [id \in DocIds |->
          IF id = 1
          THEN [exists |-> TRUE, folder_id |-> MaxFolders,
                folder_path |-> ChainPath(MaxFolders), status |-> "pending",
                version |-> 1, is_deleted |-> FALSE]
          ELSE NoDocument]
    /\ versions = {}
    /\ status_code = 200
    /\ storage = {}
    /\ document_categories = {}
    /\ session = [w \in Workers |-> NoSession]
    /\ autoflush = TRUE
    /\ PermsEmpty
    /\ CacheEmpty

\* Grants on folders and documents (with one, both or neither of user_id
\* and department), revocations of document grants, and document checks.
NextDocPerm ==
    \/ \E f \in FolderIds, u \in {NoUser, "u1"},
          d \in {NoDepartment} \cup Departments, inherit \in BOOLEAN :
           GrantFolderPermission(f, "write", u, d, inherit, NoExpiry)
    \/ \E doc \in DocIds, level \in {"read", "write"},
          until \in {NoExpiry} \cup Times :
           GrantDocumentPermission(doc, "u1", level, until)
    \/ \E doc \in DocIds, p \in DocPermIds : RevokeDocumentPermission(doc, p)
    \/ \E doc \in DocIds, u \in Users, level \in Levels :
           CheckDocument(doc, u, level)
    \/ CheckDone
    \/ Tick

SpecDocPerm == InitDocPerm /\ [][NextDocPerm]_vars

\* ------------------------------------------- uploads and the lifecycle

NextUpload ==
    \/ CreateFolder("a", NoId)
    \/ \E f \in FolderIds, saved \in BOOLEAN, c \in CategoryOutcomes :
           UploadDocument(f, saved, c)
    \/ \E f \in FolderIds, c \in CategoryOutcomes : GenerateUploadUrl(f, c)
    \/ \E d \in DocIds : ConfirmUpload(d)
    \/ \E d \in DocIds, f \in {NoId} \cup FolderIds, st \in {NoStatus} \cup Statuses :
           UpdateDocument(d, f, st)
    \/ \E d \in DocIds : DeleteDocument(d)

SpecUpload == InitAutoflush /\ [][NextUpload]_vars

\* ------------------------------- documents in a tree that is reshaped

NextMirror ==
    \/ CreateFolder("a", NoId)
    \/ \E f \in FolderIds : UpdateFolder(f, "b") /\ PathsBounded
    \/ \E f, p \in FolderIds : MoveFolder(f, p) /\ PathsBounded
    \/ CreateDocument(1)
    \/ \E d \in DocIds, f \in FolderIds : UpdateDocument(d, f, NoStatus)

SpecMirror == InitAutoflush /\ [][NextMirror]_vars

\* ------------------------------- the file cache and its worker threads

\* The rows as create_scrape_run leaves them: not cached, pending, no error.
InitCache ==
    /\ StoreEmpty
    /\ autoflush = TRUE
    /\ PermsEmpty
    /\ files \in [FileIds -> {[NoFile EXCEPT !.exists = TRUE, !.tender_id = t,
                                               !.has_url = u] :
                                  t \in Tenders, u \in BOOLEAN}]
    /\ files[1].tender_id = "t1"
    /\ disk = {}
    /\ pc = [w \in Workers |-> "idle"]
    /\ file_record = [w \in Workers |-> NoRecord]
    /\ call = [w \in Workers |-> NoCall]
    /\ result = NoResult

NextCache ==
    \/ \E w \in Workers, f \in FileIds \cup {NoId}, read, fetched \in BOOLEAN :
           GetFile(w, f, read, fetched)
    \/ \E w \in Workers, f \in FileIds \cup {NoId} : CacheFileAsync(w, f)
    \/ \E w \in Workers, t \in Tenders : BulkCacheFiles(w, t)
    \/ \E w \in Workers, outcome \in {"ok", "request_error", "error"} :
           Download(w, outcome)
    \/ \E w \in Workers, saved \in BOOLEAN : Save(w, saved)

SpecCache == InitCache /\ [][NextCache]_vars

\* ======================================================= claims C1..C10

\* The names of f's ancestors from the root down to f itself.
RECURSIVE AncestorNames(_, _)
AncestorNames(f, fuel) ==
    IF folders[f].parent_folder_id = NoId \/ fuel = 0
    THEN <<folders[f].name>>
    ELSE Append(AncestorNames(folders[f].parent_folder_id, fuel - 1), folders[f].name)

\* C1: after any sequence of create, rename and move, every non-deleted
\* folder's path is the names of its ancestors from the root down to itself
\* (so a rename rewrites the paths of all descendants).
C1_PathIsAncestorNames ==
    \A f \in FolderIds :
        (folders[f].exists /\ ~folders[f].is_deleted)
            => folders[f].path = AncestorNames(f, MaxFolders)

\* p is f itself or a descendant of f (f is on p's parent chain).
RECURSIVE OnParentChain(_, _, _)
OnParentChain(f, p, fuel) ==
    \/ p = f
    \/ /\ fuel > 0
       /\ p # NoId
       /\ folders[p].parent_folder_id # NoId
       /\ OnParentChain(f, folders[p].parent_folder_id, fuel - 1)

\* C2: move(F, P) with P = F or P a descendant of F is rejected and leaves
\* every folder's parent reference and path as they were.
C2_MoveIntoSubtreeRejected ==
    [][\A f \in FolderIds, p \in FolderIds :
          ( /\ GetFolder(folders, f)
            /\ GetFolder(folders, p)
            /\ OnParentChain(f, p, MaxFolders)
            /\ MoveFolder(f, p) )
          => (status_code' # 200 /\ folders' = folders)]_vars

\* The non-deleted documents whose folder_id is f.
DocumentsIn(f) ==
    {d \in DocIds : /\ documents[d].exists
                     /\ ~documents[d].is_deleted
                     /\ documents[d].folder_id = f}

\* C3: after any sequence of document create, update (a move to another
\* folder, to the same folder, or to a folder id that does not resolve) and
\* delete, every folder's document_count is the number of non-deleted
\* documents whose folder_id is that folder.
C3_DocumentCountMatches ==
    \A f \in FolderIds :
        folders[f].exists => folders[f].document_count = Cardinality(DocumentsIn(f))

\* The version_numbers of d's DocumentVersion rows.
VersionNumbers(d) == {v.version_number : v \in {x \in versions : x.document_id = d}}

\* C4: add_version numbers a document's rows 1, 2, 3, ... and after every
\* operation the document's version field is the highest version_number
\* among its DocumentVersion rows.
C4_VersionIsHighestRow ==
    \A d \in DocIds :
        documents[d].exists =>
            /\ VersionNumbers(d) = 1..LatestVersion(d)
            /\ documents[d].version \in VersionNumbers(d)
            /\ \A n \in VersionNumbers(d) : n <= documents[d].version

\* The proper ancestors of folder f along parent_folder_id
RECURSIVE Ancestors(_, _)
Ancestors(f, fuel) ==
    IF fuel = 0 \/ ~folders[f].exists \/ folders[f].parent_folder_id = NoId
    THEN {}
    ELSE {folders[f].parent_folder_id}
         \cup Ancestors(folders[f].parent_folder_id, fuel - 1)

Rank(level) == CASE level = "read" -> 1 [] level = "write" -> 2 [] OTHER -> 3

\* Row p is a grant that has not expired and is at or above level.
LiveGrant(p, level) ==
    /\ folder_permissions[p].exists
    /\ \/ folder_permissions[p].valid_until = NoExpiry
       \/ folder_permissions[p].valid_until > now
    /\ Rank(folder_permissions[p].permission_level) >= Rank(level)

\* C7: a non-expired department grant with inherit_to_subfolders on folder A
\* makes the check return true on every descendant of A, at any depth, for
\* a user of that department and every required level at or below the
\* grant's, whatever rows the folders in between carry.
C7_InheritedDepartmentGrant ==
    check # NoCheck =>
        \A p \in PermIds :
            ( /\ LiveGrant(p, check.required_level)
              /\ folder_permissions[p].inherit_to_subfolders
              /\ folder_permissions[p].department # NoDepartment
              /\ folder_permissions[p].department = check.user_department
              /\ folder_permissions[p].folder_id
                     \in Ancestors(check.folder_id, MaxFolders) )
            => check.result

\* Row p grants to the user or to the department the check was asked about.
GrantsToPrincipal(p) ==
    \/ folder_permissions[p].user_id = check.user_id
    \/ /\ check.user_department # NoDepartment
       /\ folder_permissions[p].department = check.user_department

\* C8: the check returns true only if a grant that has not expired, at or
\* above the required level, to the given user or the given department,
\* exists on the target folder or on one of its ancestors.
C8_TrueOnlyWithLiveGrant ==
    (check # NoCheck /\ check.result) =>
        \E p \in PermIds :
            /\ LiveGrant(p, check.required_level)
            /\ GrantsToPrincipal(p)
            /\ folder_permissions[p].folder_id
                   \in {check.folder_id} \cup Ancestors(check.folder_id, MaxFolders)

\* A check returned true through an ancestor's grant while the target
\* folder carries an expired grant to the same principal.
C8_Witness ==
    /\ check # NoCheck
    /\ check.result
    /\ \E p \in PermIds :
           /\ folder_permissions[p].exists
           /\ folder_permissions[p].folder_id = check.folder_id
           /\ GrantsToPrincipal(p)
           /\ ~LiveGrant(p, "read")
    /\ \A p \in PermIds :
           (LiveGrant(p, check.required_level) /\ GrantsToPrincipal(p))
           => folder_permissions[p].folder_id # check.folder_id

\* The three cache attributes of a row
CacheState(row) ==
    [is_cached |-> row.is_cached, cache_status |-> row.cache_status,
     cache_error |-> row.cache_error]

\* C5: a row with is_cached = true and cache_status = "cached" keeps both
\* under every step of get_file, cache_file and bulk_cache, interleaved in
\* any way.
C5_CachedNeverReverts ==
    [][\A f \in FileIds :
          (files[f].is_cached /\ files[f].cache_status = "cached")
          => (files'[f].is_cached /\ files'[f].cache_status = "cached")]_vars

\* Worker w has the GET for row f in flight / is writing f's content.
Fetching(w, f) ==
    pc[w] = "download" /\ file_record[w].id = f /\ file_record[w].has_url
Writing(w, f) == pc[w] = "save" /\ file_record[w].id = f

\* C6: of the workers running cache_file or bulk_cache, at most one at a
\* time has a fetch in flight for a given row, and at most one a write.
C6_OneFetchInFlight ==
    \A f \in FileIds : \A w1, w2 \in Workers :
        ( \/ Fetching(w1, f) /\ Fetching(w2, f)
          \/ Writing(w1, f) /\ Writing(w2, f) )
        => w1 = w2

\* Worker w's cache_file call, begun on a row that was not cached, returns
\* in this step.
CacheFileReturns(w) ==
    /\ pc[w] \in {"download", "save"}
    /\ call[w].op = "cache_file"
    /\ pc'[w] = "idle"

\* C9: a cache_file call on a row that is not yet cached ends with
\* (is_cached, cache_status, cache_error) = (true, "cached", null) when the
\* fetch and the write succeeded, and with cache_status = "failed", a
\* non-empty cache_error and is_cached = false when either failed.
C9_CacheFileOutcome ==
    [][\A w \in Workers :
          CacheFileReturns(w) =>
              LET row == files'[file_record[w].id]
              IN IF result'.success
                 THEN CacheState(row) =
                          [is_cached |-> TRUE, cache_status |-> "cached",
                           cache_error |-> NoError]
                 ELSE /\ ~row.is_cached
                      /\ row.cache_status = "failed"
                      /\ row.cache_error # NoError]_vars

\* C10: cache_file on a row that is already cached starts no fetch, writes
\* nothing to disk and leaves the row's three cache attributes as they are.
C10_CachedIsNoOp ==
    [][\A w \in Workers, f \in FileIds :
          (files[f].exists /\ files[f].is_cached /\ CacheFileAsync(w, f))
          => /\ pc'[w] = "idle"
             /\ disk' = disk
             /\ CacheState(files'[f]) = CacheState(files[f])]_vars

\* A cache_file call found its row cached, and returned saying so.
C10_Witness ==
    /\ result = Returned("cache_file", TRUE, "File already cached")
    /\ \E f \in FileIds : files[f].is_cached /\ f \in disk

\* ====================================================== claims C11..C20

\* C11: get_file changes no row's is_cached, cache_status or cache_error and
\* nothing on disk, whatever it returns.
C11_GetFileReadsOnly ==
    [][(pc' = pc /\ result'.op = "get_file") =>
       \A w \in Workers, f \in FileIds \cup {NoId}, read, fetched \in BOOLEAN :
          GetFile(w, f, read, fetched)
          => /\ disk' = disk
             /\ \A g \in FileIds : CacheState(files'[g]) = CacheState(files[g])]_vars

\* get_file returned remote bytes although every row is cached and on disk:
\* the local read of a cached row failed and the call went on to the URL.
C11_Witness ==
    /\ result = Returned("get_file", TRUE, "remote")
    /\ \A f \in FileIds : files[f].is_cached /\ f \in disk

\* C12: get_file reports local_cache exactly when the row is cached and the
\* local read succeeds; failing that it reports remote when the row has a
\* URL and the fetch succeeds, and the no-source error when the row has no
\* URL.
C12_GetFileSource ==
    [][(pc' = pc /\ result'.op = "get_file") =>
       \A w \in Workers, f \in FileIds, read, fetched \in BOOLEAN :
          GetFile(w, f, read, fetched) =>
              LET local == files[f].is_cached /\ f \in disk /\ read
              IN /\ result'.message = "local_cache" <=> local
                 /\ (~local /\ files[f].has_url /\ fetched)
                        => (result'.success /\ result'.message = "remote")
                 /\ (~local /\ ~files[f].has_url)
                        => /\ ~result'.success
                           /\ result'.message = "No file URL or cached copy available"]_vars

\* After a cache_file that succeeded, get_file has answered from the cache.
C12_Witness ==
    /\ result = Returned("get_file", TRUE, "local_cache")
    /\ \E f \in FileIds : files[f].has_url /\ files[f].cache_status = "cached"

\* The rows of a tender that are not cached
NotCachedOf(tender_id) ==
    {f \in FileIds : files[f].tender_id = tender_id /\ ~files[f].is_cached}

\* The rows a running bulk_cache call has finished with
Attempted(w) == (call[w].files \ call[w].todo) \ {file_record[w].id}

\* C13: bulk_cache lists exactly the tender's rows that are not cached when
\* it starts, starts a fetch for each of them once and for no other row,
\* goes on after a row that fails, and returns two counters whose sum is the
\* number of rows it listed.
C13_BulkCacheAttemptsEach ==
    [][\A w \in Workers :
          /\ (pc[w] = "idle" /\ pc'[w] # "idle" /\ call'[w].op = "bulk_cache")
             => /\ \E t \in Tenders : call'[w].files = NotCachedOf(t)
                /\ file_record'[w].id \in call'[w].files
                /\ call'[w].todo = call'[w].files \ {file_record'[w].id}
                /\ call'[w].cached_count + call'[w].failed_count = 0
          /\ (call[w].op = "bulk_cache" /\ call'[w] # call[w])
             => IF pc'[w] = "idle"
                THEN /\ call[w].todo = {}
                     /\ result'.op = "bulk_cache"
                     /\ result'.cached_count + result'.failed_count
                            = Cardinality(call[w].files)
                     /\ result'.cached_count >= call[w].cached_count
                     /\ result'.failed_count >= call[w].failed_count
                ELSE /\ call'[w].files = call[w].files
                     /\ file_record'[w].id \in call[w].todo
                     /\ call'[w].todo = call[w].todo \ {file_record'[w].id}
                     /\ call'[w].cached_count + call'[w].failed_count
                            = Cardinality(Attempted(w)) + 1
                     /\ Attempted(w)' = Attempted(w) \cup {file_record[w].id}]_vars

\* A bulk_cache call over two rows has returned with one row cached and
\* one row failed.
C13_Witness ==
    /\ result.op = "bulk_cache"
    /\ result.cached_count = 1
    /\ result.failed_count = 1

\* C14: in every committed state a non-deleted document whose status is
\* active has its file on disk at its storage_path.
C14_ActiveHasFile ==
    \A d \in DocIds :
        (documents[d].exists /\ ~documents[d].is_deleted
         /\ documents[d].status = "active")
        => d \in storage

\* C15: a service operation that fails (answers anything but 200) leaves
\* the committed folders, paths, documents, counters and category
\* associations as they were before it.
C15_FailedOperationChangesNothing ==
    [][status_code' # 200 =>
          /\ folders' = folders
          /\ documents' = documents
          /\ versions' = versions
          /\ document_categories' = document_categories]_vars

\* The status changes the lifecycle allows
AllowedTransitions ==
    {<<"pending", "active">>, <<"active", "archived">>,
     <<"pending", "failed">>, <<"active", "failed">>}

\* C16: a document's status changes only along an allowed transition, a
\* document is soft-deleted only from active, archived or failed, and a
\* soft-deleted document's row never changes again.
C16_StatusStateMachine ==
    [][\A d \in DocIds :
          documents[d].exists =>
              /\ documents'[d].status # documents[d].status
                 => <<documents[d].status, documents'[d].status>> \in AllowedTransitions
              /\ (~documents[d].is_deleted /\ documents'[d].is_deleted)
                 => documents[d].status \in {"active", "archived", "failed"}
              /\ documents[d].is_deleted => documents'[d] = documents[d]]_vars

\* C17: every non-deleted document that has a folder carries, as
\* folder_path, the path its folder has now.
C17_FolderPathMirrors ==
    \A d \in DocIds :
        ( /\ documents[d].exists
          /\ ~documents[d].is_deleted
          /\ documents[d].folder_id # NoId
          /\ folders[documents[d].folder_id].exists )
        => documents[d].folder_path = folders[documents[d].folder_id].path

\* The department of each user in the checks below: u1 works in d1, u2 in
\* no department.
DepartmentOf(user_id) == IF user_id = "u1" THEN "d1" ELSE NoDepartment

\* C18: when no document-specific grant satisfies the request, the document
\* permission check on a non-deleted document in folder F returns what the
\* folder permission check on F returns for the same user, the user's
\* department and the same level.
C18_DocumentCheckFollowsFolder ==
    (/\ check # NoCheck
     /\ check.document_id # NoId
     /\ GetDocument(check.document_id)
     /\ documents[check.document_id].folder_id # NoId
     /\ \A p \in DocPermissions(check.document_id, check.user_id,
                                 check.required_level) :
            ~IsPermissionValid(document_permissions[p]))
    => check.result \in
           CheckFolderPermission(documents[check.document_id].folder_id,
                                 check.user_id, DepartmentOf(check.user_id),
                                 check.required_level, 1)

\* C19: every stored folder permission names exactly one principal: a user
\* or a department, never both and never neither.
C19_ExactlyOnePrincipal ==
    \A p \in PermIds :
        folder_permissions[p].exists =>
            (folder_permissions[p].user_id # NoUser)
                # (folder_permissions[p].department # NoDepartment)

\* A folder row that get_folder finds and whose parent row is soft-deleted
LiveUnderDeleted(f) ==
    /\ GetFolder(folders, f)
    /\ folders[f].parent_folder_id # NoId
    /\ folders[folders[f].parent_folder_id].is_deleted

\* A step that sets folder f's is_deleted flag
SoftDeletes(f) == ~folders[f].is_deleted /\ folders'[f].is_deleted

\* C20: a folder's is_deleted flag is set only by a step that starts with
\* the folder holding no non-deleted document and no non-deleted subfolder
\* (otherwise the flag stays false), and no non-deleted folder ever has a
\* soft-deleted parent.
C20_DeleteOnlyEmptyFolders ==
    /\ [](\A f \in FolderIds : ~LiveUnderDeleted(f))
    /\ [][\A f \in FolderIds :
            SoftDeletes(f) => ~HasDocuments(f) /\ ~HasSubfolders(f)]_vars

\* A folder and its parent are both soft-deleted (the child first), while
\* another folder, which still holds a non-deleted document, is not.
C20_Witness ==
    /\ \E f \in FolderIds :
          /\ folders[f].is_deleted
          /\ folders[f].parent_folder_id # NoId
          /\ folders[folders[f].parent_folder_id].is_deleted
    /\ \E f \in FolderIds : GetFolder(folders, f) /\ HasDocuments(f)

\* ====================================================== claims C21..C30

\* d lies below f in the rows fs: f is d's parent, or the parent of a
\* non-deleted folder above d.
RECURSIVE Below(_, _, _, _)
Below(fs, f, d, fuel) ==
    /\ fs[d].parent_folder_id # NoId
    /\ \/ fs[d].parent_folder_id = f
       \/ /\ fuel > 0
          /\ GetFolder(fs, fs[d].parent_folder_id)
          /\ Below(fs, f, fs[d].parent_folder_id, fuel - 1)

\* The path a folder has under parent p with rows fs: p's path and the name
PathUnder(fs, p, name) == IF p = NoId THEN <<name>> ELSE Append(fs[p].path, name)

\* What a committed move(f, p) leaves behind
MoveDone(f, p) ==
    /\ folders'[f].parent_folder_id = p
    /\ folders'[f].path = PathUnder(folders, p, folders[f].name)
    /\ \A d \in FolderIds :
          (GetFolder(folders', d) /\ Below(folders', f, d, MaxFolders))
              => folders'[d].path =
                     PathUnder(folders', folders'[d].parent_folder_id,
                               folders'[d].name)
    /\ folders[f].parent_folder_id # p
          => f \notin Subfolders(folders', folders[f].parent_folder_id)

\* C21: a successful move(F, P) sets F's parent to P, F's path to P's path
\* and F's name, every non-deleted descendant's path to its parent's new
\* path and its own name, and takes F out of its former parent's
\* subfolders; a move to a P that does not exist or is deleted fails and
\* changes no folder.
C21_MoveRewritesSubtree ==
    [][\A f \in FolderIds, p \in FolderIds \cup {NoId} :
          MoveFolder(f, p) =>
              /\ status_code' = 200 => MoveDone(f, p)
              /\ (p # NoId /\ ~GetFolder(folders, p))
                    => (status_code' # 200 /\ folders' = folders)]_vars

\* C22: create_document in a root folder that holds no document gives the
\* new document version 1 and the folder document_count 1; the first
\* add_version on a document (its version still 1) leaves it at version 2
\* with exactly two DocumentVersion rows.
C22_FirstVersionIsTwo ==
    [][/\ \A f \in FolderIds :
            ( /\ CreateDocument(f)
              /\ GetFolder(folders, f)
              /\ folders[f].parent_folder_id = NoId
              /\ folders[f].document_count = 0 )
            => /\ documents'[NewDocumentId].version = 1
               /\ folders'[f].document_count = 1
       /\ \A d \in DocIds :
            ( /\ CreateDocumentVersion(d)
              /\ GetDocument(d)
              /\ documents[d].version = 1 )
            => /\ documents'[d].version = 2
               /\ Cardinality({v \in versions' : v.document_id = d}) = 2]_vars

\* The check on folder f for user u of department d at this level returns
\* True whichever rows its lookups return first.
Succeeds(f, u, d, level) == CheckFolderPermission(f, u, d, level, 1) = {TRUE}

\* C23: permission levels are monotone: where the check for admin succeeds
\* the check for write succeeds, and where the check for write succeeds
\* the check for read succeeds, for every folder and principal.
C23_LevelsMonotone ==
    \A f \in FolderIds, u \in Users, d \in {NoDepartment} \cup Departments :
        /\ Succeeds(f, u, d, "admin") => Succeeds(f, u, d, "write")
        /\ Succeeds(f, u, d, "write") => Succeeds(f, u, d, "read")

\* C24: a check on a folder succeeds only on the strength of a grant on the
\* folder itself or of a grant on an ancestor that has inherit_to_subfolders
\* set: a grant on an ancestor without the flag never makes it succeed,
\* whatever other rows the ancestor carries.
C24_NoInheritStaysLocal ==
    (check # NoCheck /\ check.document_id = NoId /\ check.result) =>
        \E p \in PermIds :
            /\ LiveGrant(p, check.required_level)
            /\ GrantsToPrincipal(p)
            /\ \/ folder_permissions[p].folder_id = check.folder_id
               \/ /\ folder_permissions[p].inherit_to_subfolders
                  /\ folder_permissions[p].folder_id
                         \in Ancestors(check.folder_id, MaxFolders)

\* C25: when the target folder carries a grant to the user that has not
\* expired and is at or above the required level, the folder check returns
\* true, whatever other rows the folder carries and whichever matching row
\* the lookup returns first.
C25_LiveDirectGrantSucceeds ==
    (check # NoCheck /\ check.document_id = NoId) =>
        ((\E p \in PermIds :
             /\ LiveGrant(p, check.required_level)
             /\ folder_permissions[p].folder_id = check.folder_id
             /\ folder_permissions[p].user_id = check.user_id)
         => check.result)

\* C26: once the concurrent document calls have committed, every folder's
\* document_count is the number of its non-deleted documents: no increment
\* or decrement of two calls on the same folder is lost.
C26_NoLostCount ==
    (\A w \in Workers : session[w] = NoSession) =>
        \A f \in FolderIds :
            GetFolder(folders, f) =>
                folders[f].document_count = Cardinality(DocumentsIn(f))

\* The folders on seq, as a set
Range(seq) == {seq[i] : i \in DOMAIN seq}

\* C27: for every move request the service accepts (the folder is found,
\* the new parent is the root or is found), the cascade ends, assigns a
\* path to each non-deleted descendant of the moved folder exactly once,
\* and visits neither the moved folder nor one of its former ancestors.
C27_CascadeVisitsDescendantsOnce ==
    \A f \in FolderIds, p \in FolderIds \cup {NoId} :
        (GetFolder(folders, f) /\ (p = NoId \/ GetFolder(folders, p))) =>
            LET r == MoveFolderRows(f, p)
            IN /\ r.ok
               /\ Cardinality(Range(r.visited)) = Len(r.visited)
               /\ Range(r.visited) =
                      {d \in FolderIds : /\ GetFolder(folders, d)
                                          /\ d # f
                                          /\ Below(folders, f, d, MaxFolders)}
               /\ f \notin Range(r.visited)
               /\ Range(r.visited) \cap Ancestors(f, MaxFolders) = {}

\* C28: in every state, a file reference has is_cached set exactly when its
\* cache_status is cached, and a reference with is_cached set has no
\* cache_error.
C28_CacheFieldsAgree ==
    \A f \in FileIds :
        files[f].exists =>
            /\ files[f].is_cached <=> (files[f].cache_status = "cached")
            /\ files[f].is_cached => files[f].cache_error = NoError

\* C29: revoke_folder_permission(F, permission_id) with a permission_id
\* that belongs to another folder fails and leaves every folder's
\* permissions as they were; revoke_document_permission does the same for
\* a permission_id that belongs to another document.
C29_RevokeOnlyOwnGrants ==
    [][/\ \A f \in FolderIds, p \in PermIds :
            ( /\ RevokeFolderPermission(f, p)
              /\ folder_permissions[p].exists
              /\ folder_permissions[p].folder_id # f )
            => /\ status_code' # 200
               /\ folder_permissions' = folder_permissions
       /\ \A doc \in DocIds, p \in DocPermIds :
            ( /\ RevokeDocumentPermission(doc, p)
              /\ document_permissions[p].exists
              /\ document_permissions[p].document_id # doc )
            => /\ status_code' # 200
               /\ document_permissions' = document_permissions]_vars

\* Document d is not deleted and names a folder that get_folder does not find
Orphaned(d) ==
    /\ GetDocument(d)
    /\ documents[d].folder_id # NoId
    /\ ~GetFolder(folders, documents[d].folder_id)

\* C30: no non-deleted document ever names a folder that is missing or
\* soft-deleted, and a create_document or update_document that names such a
\* folder is rejected and changes no folder and no document.
C30_DocumentFolderIsLive ==
    /\ [](\A d \in DocIds : ~Orphaned(d))
    /\ [][\A f \in FolderIds :
            ~GetFolder(folders, f) =>
                /\ CreateDocument(f)
                      => (status_code' # 200 /\ folders' = folders
                                             /\ documents' = documents)
                /\ \A d \in DocIds, st \in {NoStatus} \cup Statuses :
                      (UpdateDocument(d, f, st) /\ GetDocument(d))
                      => (status_code' # 200 /\ folders' = folders
                                             /\ documents' = documents)]_vars

====
